---- MODULE Spec2Model ----
(***************************************************************************)
(* A model of lib/statistics/utils.py: rank, fullrank, StepFunction, ECDF  *)
(* and monotone_fn_inverter.                                               *)
(*                                                                         *)
(* Numbers.  Breakpoints, singular values and query points are integers;   *)
(* -inf is the integer NegInf, below every other value of the model.       *)
(* Values that the code computes by a floating-point division (the y of    *)
(* an ECDF, the ratios of rank) are exact fractions <<num, den>>.          *)
(* Arrays are records [shape, data]: data is the array flattened in row    *)
(* order, shape its numpy shape.  Python indices are 0-based; PyIndex      *)
(* converts, and wraps a negative index as Python does.                    *)
(***************************************************************************)
EXTENDS Integers, Sequences, FiniteSets

VARIABLES pc,      \* where the modelled call stands
          args,    \* the arguments of the call under way
          self,    \* the StepFunction object
          time,    \* the query points of the last StepFunction call
          result,  \* what the last call returned
          calls,   \* monotone_fn_inverter: the invocations of fn so far
          y        \* monotone_fn_inverter: the collected outputs of fn

vars == <<pc, args, self, time, result, calls, y>>

\* ---------------------------------------------------------------- bounds
MaxLen == 3     \* longest 1-D input sequence
MaxVal == 2     \* number of distinct breakpoint values
MaxDim == 2     \* largest number of rows or columns of a matrix
MaxSV  == 2     \* largest singular value

\* -inf (N.inf negated): smaller than every other number of the model
NegInf == -1000

\* ------------------------------------------------------------- fractions
Frac(n) == <<n, 1>>
FracEq(a, b) == a[1] * b[2] = b[1] * a[2]
FracLeq(a, b) == a[1] * b[2] <= b[1] * a[2]

\* ---------------------------------------------------------------- arrays
Array1D(d) == [shape |-> <<Len(d)>>, data |-> d]

Size(shape) == IF Len(shape) = 0 THEN 1
               ELSE IF Len(shape) = 1 THEN shape[1]
               ELSE shape[1] * shape[2]

\* seq[i] for a Python index i: 0-based, a negative i counts from the end
PyIndex(seq, i) == IF i < 0 THEN seq[Len(seq) + i + 1] ELSE seq[i + 1]

Reverse(s) == [i \in 1..Len(s) |-> s[Len(s) + 1 - i]]

\* N.take(a, ind) with ind a sequence of 1-based positions
take(a, ind) == [i \in 1..Len(ind) |-> a[ind[i]]]

IsPermutation(p, n) ==
    /\ DOMAIN p = 1..n
    /\ \A i \in 1..n : \E j \in 1..n : p[j] = i

\* N.argsort(a), default kind (quicksort, which is not stable): every
\* permutation that puts a in ascending order is a possible outcome.
argsort(a) ==
    {p \in [1..Len(a) -> 1..Len(a)] :
        /\ IsPermutation(p, Len(a))
        /\ \A i \in 1..(Len(a) - 1) : a[p[i]] <= a[p[i + 1]]}

\* inserts v into the ascending sequence s
RECURSIVE Insert(_, _)
Insert(s, v) ==
    IF s = <<>> THEN <<v>>
    ELSE IF v <= Head(s) THEN <<v>> \o s
    ELSE <<Head(s)>> \o Insert(Tail(s), v)

\* the values of s in ascending order (what an in-place sort leaves)
RECURSIVE SortAscending(_)
SortAscending(s) == IF s = <<>> THEN <<>> ELSE Insert(SortAscending(Tail(s)), Head(s))

\* scipy.searchsorted(a, v): the binary search of numpy, default side
\* 'left'; returns the 0-based insertion index
RECURSIVE BinarySearchLeft(_, _, _, _)
BinarySearchLeft(a, v, imin, imax) ==
    IF imin < imax
    THEN LET imid == imin + ((imax - imin) \div 2)
         IN  IF PyIndex(a, imid) < v
             THEN BinarySearchLeft(a, v, imid + 1, imax)
             ELSE BinarySearchLeft(a, v, imin, imid)
    ELSE imin

searchsorted(a, v) == BinarySearchLeft(a, v, 0, Len(a))

\* ---------------------------------------------------------- StepFunction
ShapeMismatch == "in StepFunction: x and y do not have the same shape"
DimensionError == "in StepFunction: x and y must be 1-dimensional"

\* an object no attribute of which is set yet
NewObject == [x |-> <<>>, y |-> <<>>, n |-> 0, attrs |-> {}, error |-> ""]

\* StepFunction.__init__ with the two hstack assignments moved above the
\* shape checks: a refused construction leaves x and y set
StepFunction_init_StoreFirst(obj, x, yy, ival, sorted, asort) ==
    LET hx == <<NegInf>> \o x.data
        hy == <<ival>> \o yy.data
        o1 == [obj EXCEPT !.x = hx, !.y = hy, !.attrs = {"x", "y"}]
    IN  IF x.shape # yy.shape
        THEN [o1 EXCEPT !.error = ShapeMismatch]
        ELSE IF Len(x.shape) # 1
        THEN [o1 EXCEPT !.error = DimensionError]
        ELSE LET sx == IF ~sorted THEN take(hx, asort) ELSE hx
                 sy == IF ~sorted THEN take(hy, asort) ELSE hy
             IN  [o1 EXCEPT !.x = sx, !.y = sy, !.n = Len(sx),
                            !.attrs = {"x", "y", "n"}]

\* StepFunction.__init__(self, x, y, ival, sorted); asort is the outcome
\* of N.argsort(self.x) should the constructor sort
StepFunction_init(obj, x, yy, ival, sorted, asort) ==
    IF x.shape # yy.shape
    THEN [obj EXCEPT !.error = ShapeMismatch]
    ELSE IF Len(x.shape) # 1
    THEN [obj EXCEPT !.error = DimensionError]
    ELSE LET hx == <<NegInf>> \o x.data
             hy == <<ival>> \o yy.data
             sx == IF ~sorted THEN take(hx, asort) ELSE hx
             sy == IF ~sorted THEN take(hy, asort) ELSE hy
         IN  [obj EXCEPT !.x = sx, !.y = sy, !.n = Len(sx),
                         !.attrs = {"x", "y", "n"}]

\* StepFunction.__call__(self, time), elementwise over the query points; a
\* scalar time is the sequence of one point
StepFunction_call(obj, t) ==
    [i \in 1..Len(t) |-> PyIndex(obj.y, searchsorted(obj.x, t[i]) - 1)]

\* ------------------------------------------------------------------ ECDF
\* x.sort(): in place, along the last axis
SortLastAxis(a) ==
    IF Len(a.shape) = 0 THEN a
    ELSE LET w == a.shape[Len(a.shape)]
             row(i) == SubSeq(a.data, (i - 1) * w + 1, i * w)
             pos(k) == ((k - 1) % w) + 1
             rw(k) == ((k - 1) \div w) + 1
         IN  [a EXCEPT !.data =
                 [k \in 1..Len(a.data) |-> SortAscending(row(rw(k)))[pos(k)]]]

\* the x that ECDF hands to StepFunction: sorted along the last axis, then
\* flattened
ECDF_x(values) == SortLastAxis(values).data

\* ECDF(values); asort is the outcome of the constructor's argsort
ECDF(values, asort) ==
    LET x == ECDF_x(values)
        n == Len(x)
        yy == [i \in 1..n |-> <<i, n>>]
    IN  StepFunction_init(NewObject, Array1D(x), Array1D(yy), Frac(0), FALSE,
                          asort)

\* ---------------------------------------------------------------- inputs
XVals == {2 * i : i \in 1..MaxVal}
YVals == {Frac(1), Frac(2)}
IVals == {Frac(0), Frac(9)}
Queries == {NegInf} \cup (1..(2 * MaxVal + 1))
QueryArrays == {<<t>> : t \in Queries} \cup (Queries \X Queries)

Shapes == {<<n>> : n \in 0..MaxLen} \cup {<<>>, <<1, 1>>, <<1, 2>>, <<2, 1>>}
Arrays(S) == UNION {{[shape |-> sh, data |-> d] : d \in [1..Size(sh) -> S]}
                    : sh \in Shapes}
EcdfInputs == {a \in Arrays(XVals) : Len(a.shape) > 0 /\ Len(a.data) > 0}

\* ---------------------------------------------------------------- StepFunction / ECDF machine
NoArgs == [fn |-> "none"]

InitStep ==
    /\ pc = "new"
    /\ args = NoArgs
    /\ self = NewObject
    /\ time = <<>>
    /\ result = <<>>
    /\ calls = <<>>
    /\ y = <<>>

\* f = StepFunction(x, y, ival, sorted)
Construct ==
    /\ pc = "new"
    /\ \E x \in Arrays(XVals), sorted \in BOOLEAN :
         \E asort \in argsort(<<NegInf>> \o x.data) :
           \E yy \in Arrays(YVals), ival \in IVals :
             /\ self' = StepFunction_init(NewObject, x, yy, ival, sorted, asort)
             /\ args' = [fn |-> "StepFunction", x |-> x, y |-> yy,
                         ival |-> ival, sorted |-> sorted]
             /\ pc' = IF self'.error = "" THEN "built" ELSE "raised"
    /\ UNCHANGED <<time, result, calls, y>>

\* f = ECDF(values)
BuildECDF ==
    /\ pc = "new"
    /\ \E values \in EcdfInputs :
         \E asort \in argsort(<<NegInf>> \o ECDF_x(values)) :
           /\ self' = ECDF(values, asort)
           /\ args' = [fn |-> "ECDF", values |-> values]
           /\ pc' = IF self'.error = "" THEN "built" ELSE "raised"
    /\ UNCHANGED <<time, result, calls, y>>

\* f(time), once per object: a call leaves the object as it was, so a later
\* call answers as the first would
Call ==
    /\ pc = "built"
    /\ \E t \in QueryArrays :
         /\ time' = t
         /\ result' = StepFunction_call(self, t)
    /\ pc' = "called"
    /\ UNCHANGED <<args, self, calls, y>>

NextStep == Construct \/ BuildECDF \/ Call

SpecStep == InitStep /\ [][NextStep]_vars

\* ---------------------------------------------------------------- StepFunction / ECDF claims
Called(f) == pc = "called" /\ args.fn = f

\* the breakpoints and the initial value the object under way was built from
RealX == IF args.fn = "ECDF" THEN ECDF_x(args.values) ELSE args.x.data
Ival == IF args.fn = "ECDF" THEN Frac(0) ELSE args.ival

IsAscending(s) == \A i \in 1..(Len(s) - 1) : s[i] <= s[i + 1]

\* C1: built with sorted=False, the function is right-continuous: a query t
\* with x[k] <= t < x[k+1] in the stored breakpoints (x[k+1] = +inf after
\* the last one) returns y[k]; so a query at a breakpoint returns the value
\* that starts there, and one at or above the last breakpoint the last y.
C1_RightContinuous ==
    (Called("StepFunction") /\ ~args.sorted) =>
        \A i \in 1..Len(time) : \A k \in 1..self.n :
            (/\ self.x[k] <= time[i]
             /\ (k = self.n \/ time[i] < self.x[k + 1]))
            => result[i] = self.y[k]

\* C2: ECDF(values)(t) is the number of sample points <= t, divided by n.
C2_EcdfIsFractionAtOrBelow ==
    Called("ECDF") =>
        \A i \in 1..Len(time) :
            FracEq(result[i],
                   <<Cardinality({j \in 1..Len(args.values.data) :
                                     args.values.data[j] <= time[i]}),
                     Len(args.values.data)>>)

\* C3: with at least one real breakpoint, every query strictly below the
\* smallest real breakpoint (-inf included) returns ival.
C3_BelowFirstBreakpointIsIval ==
    (pc = "called" /\ RealX # <<>>) =>
        \A i \in 1..Len(time) :
            (\A j \in 1..Len(RealX) : time[i] < RealX[j])
            => result[i] = Ival

\* C4: the function ECDF returns is non-decreasing: t1 <= t2 implies
\* F(t1) <= F(t2), whatever the shape of the sample.
C4_EcdfMonotone ==
    (Called("ECDF") /\ Len(time) = 2 /\ time[1] <= time[2]) =>
        FracLeq(result[1], result[2])

\* C7: construction fails with the shape error when the shapes differ,
\* with the dimension error when they agree but are not 1-D, in both cases
\* with no attribute of the object set; it succeeds, with x, y and n set,
\* for every pair of 1-D sequences of one length.
C7_ConstructionErrors ==
    (pc # "new" /\ args.fn = "StepFunction") =>
        /\ args.x.shape # args.y.shape =>
              /\ pc = "raised"
              /\ self = [NewObject EXCEPT !.error = ShapeMismatch]
        /\ (args.x.shape = args.y.shape /\ Len(args.x.shape) # 1) =>
              /\ pc = "raised"
              /\ self = [NewObject EXCEPT !.error = DimensionError]
        /\ (args.x.shape = args.y.shape /\ Len(args.x.shape) = 1) =>
              /\ pc \in {"built", "called"}
              /\ self.error = ""
              /\ self.attrs = {"x", "y", "n"}
              /\ self.n = Len(args.x.data) + 1
              /\ Len(self.x) = self.n /\ Len(self.y) = self.n

\* a construction refused for its dimension: the shapes agree, and are 2-D
C7_Witness ==
    /\ pc = "raised"
    /\ args.fn = "StepFunction"
    /\ args.x.shape = args.y.shape
    /\ Len(args.x.shape) = 2
    /\ self.error = DimensionError

\* C9: for x already ascending (ties allowed), the function built with
\* sorted=False answers every query as the one built with sorted=True from
\* the same x, y and ival.
C9_PresortedAgrees ==
    (Called("StepFunction") /\ ~args.sorted /\ IsAscending(args.x.data)) =>
        result = StepFunction_call(
                     StepFunction_init(NewObject, args.x, args.y, args.ival,
                                       TRUE, <<>>),
                     time)

\* ---------------------------------------------------------------- rank / fullrank
\* a / b as numpy divides floats: x/0 is inf (x > 0) with the 'divide'
\* floating-point event, 0/0 is nan with the 'invalid' event; no exception
FloatDiv(a, b) ==
    IF b # 0 THEN [kind |-> "fin", num |-> a, den |-> b, fpe |-> {}]
    ELSE IF a = 0 THEN [kind |-> "nan", num |-> 0, den |-> 0, fpe |-> {"invalid"}]
    ELSE [kind |-> "inf", num |-> a, den |-> 0, fpe |-> {"divide"}]

\* N.greater(q, cond) for a quotient q of non-negative numbers and a
\* fraction cond: nan compares False, inf exceeds every cond
greater(q, cond) ==
    IF q.kind = "nan" THEN FALSE
    ELSE IF q.kind = "inf" THEN TRUE
    ELSE q.num * cond[2] > cond[1] * q.den

\* the default of rank's cond, 1.0e-06
DefaultCond == <<1, 1000000>>

\* rank(X, cond), from the singular values D that L.svd(N.transpose(X))
\* returned: the number of entries of D / D[0] greater than cond.  The
\* pseudo-inverse pX of line 45 is computed and never used.
rank(D, cond) ==
    LET ratio == [i \in 1..Len(D) |-> FloatDiv(D[i], PyIndex(D, 0))]
    IN  [value |-> Cardinality({i \in 1..Len(D) : greater(ratio[i], cond)}),
         fpe |-> UNION {ratio[i].fpe : i \in 1..Len(D)},
         error |-> ""]

\* column j of the matrix V, a sequence of rows
Column(V, j) == [i \in 1..Len(V) |-> V[i][j]]

\* N.array(N.transpose(value)) for a list of vectors of length m: the
\* vectors become the columns; an empty list gives an empty 1-D array
transpose(value, m) ==
    IF value = <<>> THEN [shape |-> <<0>>, rows |-> <<>>, error |-> ""]
    ELSE [shape |-> <<m, Len(value)>>,
          rows |-> [i \in 1..m |-> [c \in 1..Len(value) |-> value[c][i]]],
          error |-> ""]

\* fullrank without order = order[::-1]: the columns come in ascending order
\* of singular value
fullrank_NoReverse(V, D, r, asort) ==
    LET rr == IF r = <<>> THEN rank(D, DefaultCond).value ELSE r[1]
        order == asort
    IN  IF rr > Len(order)
        THEN [shape |-> <<>>, rows |-> <<>>, error |-> "IndexError"]
        ELSE transpose([i \in 1..rr |-> Column(V, order[i])], Len(V))

\* fullrank(X, r), from the V and D that L.svd(X) returned; r is <<>> for
\* None and <<k>> for the number k; asort is the outcome of N.argsort(D).
\* With r None, rank(X) decomposes the transpose of X, whose singular
\* values are those of X.
fullrank(V, D, r, asort) ==
    LET rr == IF r = <<>> THEN rank(D, DefaultCond).value ELSE r[1]
        order == Reverse(asort)
    IN  IF rr > Len(order)
        THEN [shape |-> <<>>, rows |-> <<>>, error |-> "IndexError"]
        ELSE transpose([i \in 1..rr |-> Column(V, order[i])], Len(V))

\* the singular values an SVD of an m x n matrix may return: min(m, n)
\* non-negative numbers, in an order the code of this module does not fix
SingularValues(m, n) ==
    [1..(IF m < n THEN m ELSE n) -> 0..MaxSV]

\* the m x m matrices of left singular vectors the model draws: all columns
\* differ, and the sign of the vectors is free
VMatrices(m) ==
    {[i \in 1..m |-> [j \in 1..m |-> s * (m * (i - 1) + j)]] : s \in {1, -1}}

Conds == {DefaultCond, <<1, 2>>}

InitRank == InitStep

\* rank(X, cond) for an m x n matrix X
Rank ==
    /\ pc = "new"
    /\ \E m \in 1..MaxDim, n \in 1..MaxDim, cond \in Conds :
         \E D \in SingularValues(n, m) :
           /\ args' = [fn |-> "rank", shape |-> <<m, n>>, D |-> D,
                       cond |-> cond]
           /\ result' = rank(D, cond)
    /\ pc' = "returned"
    /\ UNCHANGED <<self, time, calls, y>>

\* fullrank(X, r) for an m x n matrix X
Fullrank ==
    /\ pc = "new"
    /\ \E m \in 1..MaxDim, n \in 1..MaxDim :
         \E D \in SingularValues(m, n), V \in VMatrices(m),
            r \in {<<>>} \cup {<<k>> : k \in 0..(MaxDim + 1)} :
           \E asort \in argsort(D) :
             /\ args' = [fn |-> "fullrank", shape |-> <<m, n>>, D |-> D,
                         V |-> V, r |-> r]
             /\ result' = fullrank(V, D, r, asort)
             /\ pc' = IF result'.error = "" THEN "returned" ELSE "raised"
    /\ UNCHANGED <<self, time, calls, y>>

NextRank == Rank \/ Fullrank

SpecRank == InitRank /\ [][NextRank]_vars

\* ---------------------------------------------------------------- monotone_fn_inverter
\* the callables the model passes as fn; each takes the keyword offset
Fns == {"double", "negate"}

Keywords == {[k \in {} |-> 0], [k \in {"offset"} |-> 1]}

\* fn(v, **kw) for one number v
ApplyFn(f, v, kw) ==
    LET offset == IF "offset" \in DOMAIN kw THEN kw["offset"] ELSE 0
    IN  IF f = "double" THEN 2 * v + offset ELSE offset - v

NoResult == [error |-> "", built |-> FALSE, indep |-> <<>>, dep |-> <<>>]

InitInv ==
    /\ pc = "new"
    /\ args = NoArgs
    /\ self = NewObject
    /\ time = <<>>
    /\ result = NoResult
    /\ calls = <<>>
    /\ y = <<>>

\* monotone_fn_inverter(fn, x, vectorized, **keywords) is entered
Enter ==
    /\ pc = "new"
    /\ \E f \in Fns, vectorized \in BOOLEAN, kw \in Keywords,
          x \in UNION {[1..n -> 1..MaxVal] : n \in 0..MaxLen} :
         args' = [fn |-> "monotone_fn_inverter", f |-> f, x |-> x,
                  vectorized |-> vectorized, keywords |-> kw]
    /\ pc' = "entered"
    /\ UNCHANGED <<self, time, result, calls, y>>

\* y = fn(x, **keywords)
CallVectorized ==
    /\ pc = "entered"
    /\ args.vectorized
    /\ calls' = Append(calls, [arg |-> args.x, keywords |-> args.keywords])
    /\ y' = [i \in 1..Len(args.x) |->
                ApplyFn(args.f, args.x[i], args.keywords)]
    /\ pc' = "build"
    /\ UNCHANGED <<args, self, time, result>>

\* one round of the loop: y.append(fn(_x, **keywords))
CallElement ==
    /\ pc = "entered"
    /\ ~args.vectorized
    /\ Len(y) < Len(args.x)
    /\ LET xi == args.x[Len(y) + 1]
       IN  /\ calls' = Append(calls, [arg |-> xi, keywords |-> args.keywords])
           /\ y' = Append(y, ApplyFn(args.f, xi, args.keywords))
    /\ UNCHANGED <<pc, args, self, time, result>>

\* the loop is over: y = N.array(y)
LoopDone ==
    /\ pc = "entered"
    /\ ~args.vectorized
    /\ Len(y) = Len(args.x)
    /\ pc' = "build"
    /\ UNCHANGED <<args, self, time, result, calls, y>>

\* return LinearInterpolant(y, x, sorted=False): the module neither defines
\* nor imports the name LinearInterpolant, so looking it up raises NameError
\* and no interpolant is built
BuildInterpolant ==
    /\ pc = "build"
    /\ result' = [NoResult EXCEPT !.error = "NameError"]
    /\ pc' = "raised"
    /\ UNCHANGED <<args, self, time, calls, y>>

NextInv == Enter \/ CallVectorized \/ CallElement \/ LoopDone
           \/ BuildInterpolant

SpecInv == InitInv /\ [][NextInv]_vars

\* ---------------------------------------------------------------- rank / fullrank claims
MaxOf(D) == CHOOSE v \in {D[i] : i \in 1..Len(D)} :
                \A i \in 1..Len(D) : D[i] <= v

IsDescendingOrder(p, D) ==
    /\ IsPermutation(p, Len(D))
    /\ \A i \in 1..(Len(D) - 1) : D[p[i]] >= D[p[i + 1]]

\* the first r columns of the returned matrix are columns of V taken in an
\* order of descending singular value
ColumnsByDescendingD(r) ==
    \E p \in [1..Len(args.D) -> 1..Len(args.D)] :
        /\ IsDescendingOrder(p, args.D)
        /\ \A i \in 1..r : Column(result.rows, i) = Column(args.V, p[i])

C8_ZeroMatrixGuarded ==
    (pc # "new" /\ args.fn = "rank"
     /\ \A i \in 1..Len(args.D) : args.D[i] = 0) =>
        /\ pc = "returned"
        /\ result.value = 0
        /\ result.error = ""
        /\ result.fpe = {}

\* C6 as stated: for every r >= 0 the caller gives, fullrank returns a
\* matrix with the rows of X and exactly r columns, the i-th being the column
\* of V at the index of the i-th largest singular value.
C6_EveryR ==
    (pc # "new" /\ args.fn = "fullrank" /\ args.r # <<>>) =>
        /\ pc = "returned"
        /\ result.error = ""
        /\ result.shape = <<args.shape[1], args.r[1]>>
        /\ ColumnsByDescendingD(args.r[1])

\* C6, amended: for 1 <= r <= len(D) fullrank returns a matrix with the rows
\* of X and exactly r columns, the i-th being the column of V at the index
\* of the i-th largest singular value (equal values in either order); an r
\* above len(D) raises IndexError, and r = 0 returns an empty 1-D array.
C6_RWithinSingularValues ==
    (pc # "new" /\ args.fn = "fullrank" /\ args.r # <<>>) =>
        /\ (1 <= args.r[1] /\ args.r[1] <= Len(args.D)) =>
              /\ pc = "returned"
              /\ result.error = ""
              /\ result.shape = <<args.shape[1], args.r[1]>>
              /\ Len(result.rows) = args.shape[1]
              /\ \A i \in 1..Len(result.rows) :
                     Len(result.rows[i]) = args.r[1]
              /\ ColumnsByDescendingD(args.r[1])
        /\ args.r[1] > Len(args.D) =>
              /\ pc = "raised"
              /\ result.error = "IndexError"
        /\ args.r[1] = 0 =>
              /\ pc = "returned"
              /\ result.shape = <<0>>

\* fullrank took two columns, and had to reorder them: the larger singular
\* value came second
C6_Witness ==
    /\ pc = "returned"
    /\ args.fn = "fullrank"
    /\ args.r = <<2>>
    /\ Len(args.D) = 2
    /\ args.D[1] < args.D[2]
    /\ result.shape = <<2, 2>>

\* ---------------------------------------------------------------- monotone_fn_inverter claim
\* C10: vectorized, fn is invoked once, on all of x with the keywords;
\* otherwise once per element of x, in order, with the keywords, the i-th
\* result being fn(x[i]); then, after all the invocations, the interpolant
\* is built with y as independent and x as dependent variable.
C10_InvocationsThenInterpolant ==
    (pc \in {"returned", "raised"} /\ args.fn = "monotone_fn_inverter") =>
        /\ args.vectorized =>
              calls = <<[arg |-> args.x, keywords |-> args.keywords]>>
        /\ ~args.vectorized =>
              /\ Len(calls) = Len(args.x)
              /\ \A i \in 1..Len(args.x) :
                    /\ calls[i] = [arg |-> args.x[i],
                                   keywords |-> args.keywords]
                    /\ y[i] = ApplyFn(args.f, args.x[i], args.keywords)
        /\ pc = "returned"
        /\ result.built
        /\ result.indep = y
        /\ result.dep = args.x

====
